---- MODULE Spec2Model ----
(***************************************************************************)
(* The actor-critic policy of playground/policies/actor_critic.py:        *)
(* ActorCriticPolicy.act, ActorCriticPolicy.train and the ReplayMemory     *)
(* that train() feeds and drains.                                          *)
(*                                                                         *)
(* Numbers that are floats in the source are exact rationals <<num, den>>  *)
(* here (den > 0, lowest terms), so schedules are compared exactly.        *)
(***************************************************************************)
EXTENDS Integers, Sequences, FiniteSets, TLC

VARIABLES
    self,               \* the policy's fields set by __init__ (training, gamma, lr_*, batch_size)
    memory,             \* self.memory.buffer: the ReplayMemory's records, oldest first
    n_episodes,         \* train() argument
    annealing_arg,      \* train() argument annealing_episodes as passed (0 stands for None)
    horizon,            \* environment: the step at which an episode reports done at the latest
    pc,                 \* position in train() / in the act and memory drivers
    n_episode,          \* the for-loop counter of train()
    step,               \* train() local: environment steps taken so far
    episode_reward,     \* train() local
    reward_history,     \* train() local
    reward_averaged,    \* train() local
    lr_a,               \* train() local
    lr_c,               \* train() local
    eps,                \* train() local
    annealing_episodes, \* train() local after line 155
    eps_drop,           \* train() local
    ob,                 \* train() local: current observation
    a,                  \* train() local: last action returned by act
    done,               \* train() local
    ep_len,             \* environment: steps taken in the running episode
    critic_vars,        \* critic parameters, identified by the number of updates applied
    actor_vars,         \* actor parameters, identified by the number of updates applied
    fed,                \* the feed_dict of the last sess.run(train_ops) (<<>> before the first)
    raised,             \* the exception that left train(), "" when none
    born,               \* history: for each record of memory, the step that made it,
                        \*          the next state and the critic parameters of that step
    consumed,           \* history: consumed[t] = number of batches the record of step t was popped into
    n_updates,          \* history: number of fused updates run
    drained,            \* history: batches popped during the current environment step
    max_drained,        \* history: the largest value drained has had in this run
    act_trace,          \* history: the last act call: its draw, its branch, its inputs
    last_pop,           \* history: the last ReplayMemory.pop call: n, buffer before and after, result
    report              \* what the final report printed and saved (<<>> before it)

vars == <<self, memory, n_episodes, annealing_arg, horizon, pc, n_episode, step,
          episode_reward, reward_history, reward_averaged, lr_a, lr_c, eps,
          annealing_episodes, eps_drop, ob, a, done, ep_len, critic_vars,
          actor_vars, fed, raised, born, consumed, n_updates, drained,
          max_drained, act_trace, last_pop, report>>

----------------------------------------------------------------------------
(* Bounds of the model *)

MaxEpisodes == 2
MaxBatch == 2
MaxHorizon == 2
MaxMem == 3
ScenarioEpisodes == 20
ScenarioAnneal == 10

Obs == {0, 1}
Actions == {0, 1}

----------------------------------------------------------------------------
(* Exact rational arithmetic *)

RECURSIVE GCD(_, _)
GCD(m, n) == IF n = 0 THEN m ELSE GCD(n, m % n)

Abs(x) == IF x < 0 THEN -x ELSE x

Rat(n, d) ==
    LET g == GCD(Abs(n), Abs(d))
        s == IF d < 0 THEN -1 ELSE 1
    IN  <<(s * n) \div g, (s * d) \div g>>

RatInt(n) == <<n, 1>>
RatAdd(x, y) == Rat(x[1] * y[2] + y[1] * x[2], x[2] * y[2])
RatSub(x, y) == Rat(x[1] * y[2] - y[1] * x[2], x[2] * y[2])
RatMul(x, y) == Rat(x[1] * y[1], x[2] * y[2])
RatDivInt(x, k) == Rat(x[1], x[2] * k)
RatLt(x, y) == x[1] * y[2] < y[1] * x[2]
RatGt(x, y) == RatLt(y, x)

RECURSIVE SeqSum(_)
SeqSum(s) == IF s = <<>> THEN 0 ELSE Head(s) + SeqSum(Tail(s))

Max(x, y) == IF x >= y THEN x ELSE y

----------------------------------------------------------------------------
(* ReplayMemory (playground.policies.base), as the policy uses it:         *)
(* ReplayMemory(tuple_class=Record), add(record), size, pop(batch_size).   *)

Record(s, act, r, td_target) == [s |-> s, a |-> act, r |-> r, td_target |-> td_target]

MemSize(buffer) == Len(buffer)

MemAdd(buffer, record) == Append(buffer, record)

\* one array per field of the record class
Reformat(records) ==
    [s         |-> [i \in 1..Len(records) |-> records[i].s],
     a         |-> [i \in 1..Len(records) |-> records[i].a],
     r         |-> [i \in 1..Len(records) |-> records[i].r],
     td_target |-> [i \in 1..Len(records) |-> records[i].td_target]]

PopTaken(buffer, n) == SubSeq(buffer, 1, n)

PopRest(buffer, n) == SubSeq(buffer, n + 1, Len(buffer))

\* mutant of MemPop: hands out what is there when fewer than n records are held
MemPopPartial(buffer, n) ==
    LET i == IF MemSize(buffer) < n THEN MemSize(buffer) ELSE n
    IN  [error |-> "", batch |-> Reformat(PopTaken(buffer, i)), buffer |-> PopRest(buffer, i)]

MemPop(buffer, n) ==
    IF MemSize(buffer) < n
    THEN [error |-> "InsufficientDataError", batch |-> <<>>, buffer |-> buffer]
    ELSE [error |-> "", batch |-> Reformat(PopTaken(buffer, n)), buffer |-> PopRest(buffer, n)]

----------------------------------------------------------------------------
(* ActorCriticPolicy.act *)

\* values of np.random.random(), which lies in [0, 1)
Draws == {<<0, 1>>, <<99, 100>>}

DefaultEpsilon == <<1, 10>>

\* mutant of ExploreBranch: epsilon also applies outside training mode
ExploreBranchAnyMode(training, u, epsilon) == RatLt(u, epsilon)

ExploreBranch(training, u, epsilon) == training /\ RatLt(u, epsilon)

\* Every result of one act call.  explored: the action came from
\* env.action_space.sample(); evaluated: actor_proba was evaluated and the
\* action drawn from it (softmax gives every action a positive probability).
ActOutcomes(training, state, epsilon) ==
    { [a |-> act, u |-> u, explored |-> ExploreBranch(training, u, epsilon),
       evaluated |-> ~ExploreBranch(training, u, epsilon),
       training |-> training, state |-> state, epsilon |-> epsilon]
      : act \in Actions, u \in Draws }

----------------------------------------------------------------------------
(* The environment: two states, two actions, reward +1 on one transition;  *)
(* an episode reports done at any step and at the latest at `horizon`.     *)

EnvReset == 0

EnvNext(state, act) == (state + act) % 2

EnvReward(state, act) == IF state = 1 /\ act = 1 THEN 1 ELSE 0

EnvDone(len) == IF len >= horizon THEN {TRUE} ELSE BOOLEAN

----------------------------------------------------------------------------
(* ActorCriticPolicy.train *)

\* The critic network's output for a state under the parameters cv: a fixed
\* function of both, different for different parameters.
CriticEval(cv, state) == RatInt(Cardinality(Obs) * cv + state)

\* mutant of TdTarget: the bootstrap value is not discounted
TdTargetUndiscounted(r, gamma, next_value) == RatAdd(RatInt(r), next_value)

TdTarget(r, gamma, next_value) == RatAdd(RatInt(r), RatMul(gamma, next_value))

InitialEps == <<1, 2>>

FloorEps == <<1, 100>>

EpsDrop(e, annealing) == RatDivInt(RatSub(e, FloorEps), annealing)

\* mutant of NextEps: the step is subtracted without the floor test
NextEpsNoFloor(e, drop) == RatSub(e, drop)

NextEps(e, drop) == IF RatGt(e, FloorEps) THEN RatSub(e, drop) ELSE e

\* mutant of DecayLr: the decay is skipped
DecayLrSkipped(lr, decay) == lr

DecayLr(lr, decay) == RatMul(lr, decay)

\* mutant of ForCond: one episode too many
ForCondInclusive(i, n) == i <= n

ForCond(i, n) == i < n

\* mutant of DrainCond: drains as soon as the buffer is not empty
DrainCondNonEmpty(size, batch_size) == size >= 1

\* mutant of DrainCond: drains only when more than a batch is held
DrainCondStrict(size, batch_size) == size > batch_size

DrainCond(size, batch_size) == size >= batch_size

\* mutant of TrainAdd: the record is pushed twice
TrainAddTwice(buffer, record) == MemAdd(MemAdd(buffer, record), record)

TrainAdd(buffer, record) == MemAdd(buffer, record)

Last10(h) == SubSeq(h, Max(1, Len(h) - 9), Len(h))

Mean(h) == Rat(SeqSum(h), Len(h))

RECURSIVE SeqMax(_)
SeqMax(h) == IF Len(h) = 1 THEN h[1] ELSE Max(Head(h), SeqMax(Tail(h)))

NoAct == [a |-> 0, u |-> <<0, 1>>, explored |-> FALSE, evaluated |-> FALSE,
          training |-> FALSE, state |-> 0, epsilon |-> <<0, 1>>]

NoPop == [n |-> 0, before |-> <<>>, after |-> <<>>, error |-> "", batch |-> Reformat(<<>>)]

Policies ==
    [training : BOOLEAN, gamma : {<<9, 10>>},
     lr_a : {<<1, 100>>}, lr_a_decay : {<<1, 2>>},
     lr_c : {<<1, 1000>>}, lr_c_decay : {<<9, 10>>},
     batch_size : 1..MaxBatch]

\* the spec's schedule scenario: many one-step episodes
ScenarioPolicies ==
    [training : {TRUE}, gamma : {<<9, 10>>},
     lr_a : {<<1, 100>>}, lr_a_decay : {<<1, 2>>},
     lr_c : {<<1, 1000>>}, lr_c_decay : {<<1, 2>>},
     batch_size : {1, 2}]

\* the state __init__ leaves, and train()'s locals before they are assigned
Constructed ==
    /\ memory = <<>>
    /\ n_episode = 0
    /\ step = 0
    /\ episode_reward = 0
    /\ reward_history = <<>>
    /\ reward_averaged = <<>>
    /\ lr_a = <<0, 1>>
    /\ lr_c = <<0, 1>>
    /\ annealing_episodes = 0
    /\ eps_drop = <<0, 1>>
    /\ a = 0
    /\ done = FALSE
    /\ ep_len = 0
    /\ critic_vars = 0
    /\ actor_vars = 0
    /\ fed = <<>>
    /\ raised = ""
    /\ born = <<>>
    /\ consumed = <<>>
    /\ n_updates = 0
    /\ drained = 0
    /\ max_drained = 0
    /\ act_trace = NoAct
    /\ last_pop = NoPop
    /\ report = <<>>

Init ==
    /\ \/ /\ self \in Policies
          /\ n_episodes \in 1..MaxEpisodes
          /\ annealing_arg \in 0..MaxEpisodes
          /\ horizon \in 1..MaxHorizon
       \/ /\ self \in ScenarioPolicies
          /\ n_episodes = ScenarioEpisodes
          /\ annealing_arg = ScenarioAnneal
          /\ horizon = 1
    /\ pc = "train"
    /\ ob = 0
    /\ eps = <<0, 1>>
    /\ Constructed

\* lines 146-157
TrainStart ==
    /\ pc = "train"
    /\ step' = 0
    /\ episode_reward' = 0
    /\ reward_history' = <<>>
    /\ reward_averaged' = <<>>
    /\ lr_c' = self.lr_c
    /\ lr_a' = self.lr_a
    /\ eps' = InitialEps
    /\ annealing_episodes' = (IF annealing_arg # 0 THEN annealing_arg ELSE n_episodes)
    /\ eps_drop' = EpsDrop(InitialEps, annealing_episodes')
    /\ n_episode' = 0
    /\ pc' = "for"
    /\ UNCHANGED <<self, memory, n_episodes, annealing_arg, horizon, ob, a, done, ep_len,
                   critic_vars, actor_vars, fed, raised, born, consumed, n_updates,
                   drained, max_drained, act_trace, last_pop, report>>

\* lines 159-167: the for loop takes another episode
EpisodeStart ==
    /\ pc = "for"
    /\ ForCond(n_episode, n_episodes)
    /\ ob' = EnvReset
    /\ ep_len' = 0
    /\ \E o \in ActOutcomes(self.training, EnvReset, DefaultEpsilon) :
          /\ a' = o.a
          /\ act_trace' = o
    /\ done' = FALSE
    /\ pc' = "while"
    /\ UNCHANGED <<self, memory, n_episodes, annealing_arg, horizon, n_episode, step,
                   episode_reward, reward_history, reward_averaged, lr_a, lr_c, eps,
                   annealing_episodes, eps_drop, critic_vars, actor_vars, fed, raised,
                   born, consumed, n_updates, drained, max_drained, last_pop, report>>

\* lines 169-186: one environment step, up to the push into the memory
Step ==
    /\ pc = "while"
    /\ ~done
    /\ \E o \in ActOutcomes(self.training, ob, eps), d \in EnvDone(ep_len + 1) :
          LET ob_next == EnvNext(ob, o.a)
              r == EnvReward(ob, o.a)
              next_value == CriticEval(critic_vars, ob_next)
              td_target == TdTarget(r, self.gamma, next_value)
          IN  /\ a' = o.a
              /\ act_trace' = o
              /\ done' = d
              /\ ep_len' = ep_len + 1
              /\ step' = step + 1
              /\ episode_reward' = episode_reward + r
              /\ memory' = TrainAdd(memory, Record(ob, o.a, r, td_target))
              /\ born' = Append(born, [t |-> step', ep |-> n_episode, ob_next |-> ob_next,
                                       done |-> d, cv |-> critic_vars])
              /\ consumed' = Append(consumed, 0)
              /\ ob' = ob_next
    /\ drained' = 0
    /\ pc' = "drain"
    /\ UNCHANGED <<self, n_episodes, annealing_arg, horizon, n_episode, reward_history,
                   reward_averaged, lr_a, lr_c, eps, annealing_episodes, eps_drop,
                   critic_vars, actor_vars, fed, raised, n_updates, max_drained, last_pop,
                   report>>

\* lines 189-201: one turn of the drain loop
DrainPop ==
    /\ pc = "drain"
    /\ DrainCond(MemSize(memory), self.batch_size)
    /\ LET res == MemPop(memory, self.batch_size)
           ids == PopTaken(born, self.batch_size)
       IN  /\ last_pop' = [n |-> self.batch_size, before |-> memory, after |-> res.buffer,
                           error |-> res.error, batch |-> res.batch]
           /\ memory' = res.buffer
           /\ IF res.error # ""
              THEN /\ raised' = res.error
                   /\ pc' = "raised"
                   /\ UNCHANGED <<critic_vars, actor_vars, fed, born, consumed, n_updates,
                                  drained, max_drained>>
              ELSE /\ fed' = [learning_rate_c |-> lr_c, learning_rate_a |-> lr_a,
                              states |-> res.batch.s, actions |-> res.batch.a,
                              rewards |-> res.batch.r, td_targets |-> res.batch.td_target,
                              ids |-> ids, critic_vars |-> critic_vars]
                   /\ critic_vars' = critic_vars + 1
                   /\ actor_vars' = actor_vars + 1
                   /\ n_updates' = n_updates + 1
                   /\ born' = PopRest(born, self.batch_size)
                   /\ consumed' = [t \in 1..Len(consumed) |->
                                     consumed[t] + Cardinality({i \in 1..Len(ids) : ids[i].t = t})]
                   /\ drained' = drained + 1
                   /\ max_drained' = Max(max_drained, drained')
                   /\ raised' = raised
                   /\ pc' = "drain"
    /\ UNCHANGED <<self, n_episodes, annealing_arg, horizon, n_episode, step, episode_reward,
                   reward_history, reward_averaged, lr_a, lr_c, eps, annealing_episodes,
                   eps_drop, ob, a, done, ep_len, act_trace, report>>

\* line 189: the drain loop ends
DrainExit ==
    /\ pc = "drain"
    /\ ~DrainCond(MemSize(memory), self.batch_size)
    /\ pc' = "while"
    /\ UNCHANGED <<self, memory, n_episodes, annealing_arg, horizon, n_episode, step,
                   episode_reward, reward_history, reward_averaged, lr_a, lr_c, eps,
                   annealing_episodes, eps_drop, ob, a, done, ep_len, critic_vars,
                   actor_vars, fed, raised, born, consumed, n_updates, drained,
                   max_drained, act_trace, last_pop, report>>

\* lines 203-223: the episode is complete
EpisodeEnd ==
    /\ pc = "while"
    /\ done
    /\ reward_history' = Append(reward_history, episode_reward)
    /\ reward_averaged' = Append(reward_averaged, Mean(Last10(reward_history')))
    /\ episode_reward' = 0
    /\ lr_c' = DecayLr(lr_c, self.lr_c_decay)
    /\ lr_a' = DecayLr(lr_a, self.lr_a_decay)
    /\ eps' = NextEps(eps, eps_drop)
    /\ n_episode' = n_episode + 1
    /\ pc' = "for"
    /\ UNCHANGED <<self, memory, n_episodes, annealing_arg, horizon, step,
                   annealing_episodes, eps_drop, ob, a, done, ep_len, critic_vars,
                   actor_vars, fed, raised, born, consumed, n_updates, drained,
                   max_drained, act_trace, last_pop, report>>

\* lines 159, 225-234: the for loop is exhausted; save and report
FinalReport ==
    /\ pc = "for"
    /\ ~ForCond(n_episode, n_episodes)
    /\ report' = [saved_step |-> step, episodes |-> Len(reward_history),
                  max_reward |-> SeqMax(reward_history), mean_reward |-> Mean(reward_history)]
    /\ pc' = "done"
    /\ UNCHANGED <<self, memory, n_episodes, annealing_arg, horizon, n_episode, step,
                   episode_reward, reward_history, reward_averaged, lr_a, lr_c, eps,
                   annealing_episodes, eps_drop, ob, a, done, ep_len, critic_vars,
                   actor_vars, fed, raised, born, consumed, n_updates, drained,
                   max_drained, act_trace, last_pop>>

Next ==
    \/ TrainStart
    \/ EpisodeStart
    \/ Step
    \/ DrainPop
    \/ DrainExit
    \/ EpisodeEnd
    \/ FinalReport

Spec == Init /\ [][Next]_vars

\* The runs checked for termination: a policy in training mode, the default
\* annealing_episodes, every n_episodes, batch_size and episode horizon.
InitRun ==
    /\ self \in {p \in Policies : p.training}
    /\ n_episodes \in 1..MaxEpisodes
    /\ annealing_arg = 0
    /\ horizon \in 1..MaxHorizon
    /\ pc = "train"
    /\ ob = 0
    /\ eps = <<0, 1>>
    /\ Constructed

\* train() is one thread of control: it takes its next step whenever it has one
FairSpec == InitRun /\ [][Next]_vars /\ WF_vars(Next)

----------------------------------------------------------------------------
(* act called on its own: any mode, any state, any epsilon *)

EpsInputs == {<<0, 1>>, <<1, 100>>, <<1, 10>>, <<1, 2>>, <<99, 100>>, <<1, 1>>}

InitAct ==
    /\ self \in [training : BOOLEAN, gamma : {<<9, 10>>},
                 lr_a : {<<1, 100>>}, lr_a_decay : {<<1, 2>>},
                 lr_c : {<<1, 1000>>}, lr_c_decay : {<<9, 10>>},
                 batch_size : {1}]
    /\ n_episodes = 1
    /\ annealing_arg = 0
    /\ horizon = 1
    /\ pc = "act"
    /\ ob \in Obs
    /\ eps \in EpsInputs
    /\ Constructed

ActCall ==
    /\ pc = "act"
    /\ \E o \in ActOutcomes(self.training, ob, eps) :
          /\ a' = o.a
          /\ act_trace' = o
    /\ pc' = "acted"
    /\ UNCHANGED <<self, memory, n_episodes, annealing_arg, horizon, n_episode, step,
                   episode_reward, reward_history, reward_averaged, lr_a, lr_c, eps,
                   annealing_episodes, eps_drop, ob, done, ep_len, critic_vars,
                   actor_vars, fed, raised, born, consumed, n_updates, drained,
                   max_drained, last_pop, report>>

NextAct == ActCall

SpecAct == InitAct /\ [][NextAct]_vars

----------------------------------------------------------------------------
(* the ReplayMemory called on its own: any sequence of add and pop *)

MemRecords == { Record(s, 0, 0, RatInt(s)) : s \in Obs }

InitMem ==
    /\ self \in [training : {TRUE}, gamma : {<<9, 10>>},
                 lr_a : {<<1, 100>>}, lr_a_decay : {<<1, 2>>},
                 lr_c : {<<1, 1000>>}, lr_c_decay : {<<9, 10>>},
                 batch_size : {1}]
    /\ n_episodes = 1
    /\ annealing_arg = 0
    /\ horizon = 1
    /\ pc = "mem"
    /\ ob = 0
    /\ eps = <<0, 1>>
    /\ Constructed

MemAddCall ==
    /\ pc = "mem"
    /\ MemSize(memory) < MaxMem
    /\ \E record \in MemRecords : memory' = MemAdd(memory, record)
    /\ UNCHANGED <<self, n_episodes, annealing_arg, horizon, pc, n_episode, step,
                   episode_reward, reward_history, reward_averaged, lr_a, lr_c, eps,
                   annealing_episodes, eps_drop, ob, a, done, ep_len, critic_vars,
                   actor_vars, fed, raised, born, consumed, n_updates, drained,
                   max_drained, act_trace, last_pop, report>>

MemPopCall ==
    /\ pc = "mem"
    /\ \E n \in 0..(MaxMem + 1) :
          LET res == MemPop(memory, n)
          IN  /\ memory' = res.buffer
              /\ last_pop' = [n |-> n, before |-> memory, after |-> res.buffer,
                              error |-> res.error, batch |-> res.batch]
    /\ UNCHANGED <<self, n_episodes, annealing_arg, horizon, pc, n_episode, step,
                   episode_reward, reward_history, reward_averaged, lr_a, lr_c, eps,
                   annealing_episodes, eps_drop, ob, a, done, ep_len, critic_vars,
                   actor_vars, fed, raised, born, consumed, n_updates, drained,
                   max_drained, act_trace, report>>

NextMem ==
    \/ MemAddCall
    \/ MemPopCall

SpecMem == InitMem /\ [][NextMem]_vars

----------------------------------------------------------------------------
(* Properties *)

RatLe(x, y) == ~RatLt(y, x)

RECURSIVE RatPow(_, _)
RatPow(x, k) == IF k = 0 THEN RatInt(1) ELSE RatMul(x, RatPow(x, k - 1))

\* train() has assigned its locals
InTrain == pc \in {"for", "while", "drain", "done"}

Completed == Len(reward_history)

\* what a record's td_target must be: reward + gamma * critic(next state) under
\* the critic parameters of the step that made it
ExpectedTarget(r, h) == RatAdd(RatInt(r), RatMul(self.gamma, CriticEval(h.cv, h.ob_next)))

ThmC2 ==
    InTrain =>
        /\ lr_a = RatMul(self.lr_a, RatPow(self.lr_a_decay, Completed))
        /\ lr_c = RatMul(self.lr_c, RatPow(self.lr_c_decay, Completed))
        /\ fed # <<>> => \E k \in 0..Completed :
                /\ fed.learning_rate_a = RatMul(self.lr_a, RatPow(self.lr_a_decay, k))
                /\ fed.learning_rate_c = RatMul(self.lr_c, RatPow(self.lr_c_decay, k))

WitC2 ==
    /\ pc = "done"
    /\ Completed >= 2
    /\ n_updates >= 2
    /\ lr_a = RatMul(self.lr_a, <<1, 4>>)
    /\ lr_c = RatMul(self.lr_c, <<81, 100>>)

\* C3: train(n_episodes) eventually reaches the final report, and when it has,
\* exactly n_episodes episodes were completed; it stops nowhere else.
ThmC3 ==
    /\ <>(pc = "done")
    /\ [](pc = "done" =>
            /\ Completed = n_episodes
            /\ n_episode = n_episodes
            /\ report.episodes = n_episodes
            /\ raised = "")
    /\ [](Completed <= n_episodes)

WitC3 ==
    /\ pc = "done"
    /\ n_episodes >= 2
    /\ Completed = n_episodes
    /\ step > n_episodes

\* C4: pop(n) with n <= size returns exactly the n earliest-inserted records,
\* one array per field, and shrinks the buffer by n; pop(n) with n > size
\* fails with InsufficientDataError, returns nothing and leaves the buffer
\* as it was.
ThmC4 ==
    LET p == last_pop
        size == Len(p.before)
    IN  /\ p.n <= size =>
              /\ p.error = ""
              /\ Len(p.batch.s) = p.n
              /\ Len(p.batch.a) = p.n
              /\ Len(p.batch.r) = p.n
              /\ Len(p.batch.td_target) = p.n
              /\ \A i \in 1..p.n :
                    Record(p.batch.s[i], p.batch.a[i], p.batch.r[i], p.batch.td_target[i])
                        = p.before[i]
              /\ Len(p.after) = size - p.n
              /\ \A i \in 1..Len(p.after) : p.after[i] = p.before[p.n + i]
        /\ p.n > size =>
              /\ p.error = "InsufficientDataError"
              /\ p.batch = <<>>
              /\ p.after = p.before

WitC4 ==
    /\ pc = "mem"
    /\ last_pop.n = 2
    /\ Len(last_pop.before) = 3
    /\ last_pop.before[1] # last_pop.before[2]
    /\ last_pop.error = ""
    /\ memory = last_pop.after
    /\ Len(memory) = 1

\* C5: every record's td_target, the one of a done transition included, is
\* reward + gamma * critic(next_state) under the critic parameters in force at
\* its step (those left by the updates of all earlier steps), and that value is
\* what the batch update is fed.
ThmC5 ==
    /\ Len(born) = Len(memory)
    /\ \A i \in 1..Len(memory) :
          /\ memory[i].td_target = ExpectedTarget(memory[i].r, born[i])
          /\ born[i].cv = (born[i].t - 1) \div self.batch_size
    /\ fed # <<>> =>
          /\ Len(fed.td_targets) = Len(fed.ids)
          /\ \A i \in 1..Len(fed.ids) :
                /\ fed.td_targets[i] = ExpectedTarget(fed.rewards[i], fed.ids[i])
                /\ fed.ids[i].cv = (fed.ids[i].t - 1) \div self.batch_size

WitC5 ==
    /\ fed # <<>>
    /\ Len(fed.ids) = 2
    /\ fed.ids[2].done
    /\ fed.ids[2].cv >= 1
    /\ fed.rewards[2] = 1
    /\ fed.td_targets[2] = <<14, 5>>

\* C6: act explores only in training mode and only when the draw is below
\* epsilon, and then evaluates no network; outside training mode it never
\* explores, whatever epsilon; in training mode it never explores with
\* epsilon = 0 and always explores with epsilon = 1.
ThmC6 ==
    pc = "acted" =>
        LET t == act_trace
        IN  /\ t.explored <=> (t.training /\ RatLt(t.u, t.epsilon))
            /\ t.explored <=> ~t.evaluated
            /\ ~t.training => (~t.explored /\ t.evaluated)
            /\ (t.training /\ t.epsilon = <<0, 1>>) => ~t.explored
            /\ (t.training /\ t.epsilon = <<1, 1>>) => t.explored
            /\ a = t.a /\ a \in Actions

WitC6 ==
    /\ pc = "acted"
    /\ ~act_trace.training
    /\ act_trace.epsilon = <<1, 1>>
    /\ act_trace.evaluated
    /\ ~act_trace.explored

\* C7: train() calls memory.pop(batch_size) only when memory.size >= batch_size,
\* so InsufficientDataError is never raised.
ThmC7 ==
    /\ raised = ""
    /\ pc # "raised"
    /\ last_pop.error = ""
    /\ Len(last_pop.before) >= last_pop.n

WitC7 ==
    /\ pc = "drain"
    /\ last_pop.n = 2
    /\ Len(last_pop.before) = 2
    /\ drained = 1
    /\ n_updates >= 2

\* C8, as amended: within one environment step the drain loop pops no batch or
\* exactly one batch, never two: one batch when the number of steps taken is a
\* multiple of batch_size, none otherwise.
ThmC8 ==
    /\ drained <= 1
    /\ max_drained <= 1
    /\ (pc = "while" /\ step > 0) =>
          drained = (IF step % self.batch_size = 0 THEN 1 ELSE 0)

WitC8 ==
    /\ pc = "while"
    /\ step = 3
    /\ self.batch_size = 2
    /\ drained = 0
    /\ max_drained = 1

\* C8, as stated, on complete runs: a run of train() has an environment step
\* during which two or more batches are popped.
CexC8 == pc = "done" => max_drained >= 2

\* C9: each environment step adds exactly one record, and a record is consumed
\* exactly once: it is in the buffer and in no batch yet, or out of the buffer
\* and was popped into exactly one batch.
ThmC9 ==
    LET held == { born[i].t : i \in 1..Len(born) }
    IN  /\ Len(memory) = Len(born)
        /\ Cardinality(held) = Len(born)
        /\ Len(consumed) = step
        /\ (pc # "drain" \/ drained > 0) => held \subseteq 1..step
        /\ \A t \in 1..Len(consumed) :
              /\ consumed[t] <= 1
              /\ (consumed[t] = 0) <=> (t \in held)
        /\ Len(memory) + SeqSum(consumed) = step
        /\ n_updates * self.batch_size = SeqSum(consumed)
        /\ fed # <<>> => \A i \in 1..Len(fed.ids) : fed.ids[i].t \notin held

WitC9 ==
    /\ pc = "done"
    /\ step = 3
    /\ consumed = <<1, 1, 0>>
    /\ Len(memory) = 1
    /\ born[1].t = 3

\* C10: after the drain loop of every environment step, with T steps taken in
\* all, floor(T / batch_size) updates have run and the buffer holds
\* T mod batch_size records; the buffer never holds more than batch_size, holds
\* fewer whenever an action is selected, is not cleared between episodes, and
\* keeps its T mod batch_size records at the final report.
ThmC10 ==
    /\ Len(memory) <= self.batch_size
    /\ pc \in {"for", "while", "done"} =>
          /\ n_updates = step \div self.batch_size
          /\ Len(memory) = step % self.batch_size
          /\ Len(memory) < self.batch_size
    /\ pc = "drain" => Len(memory) + drained * self.batch_size = ((step - 1) % self.batch_size) + 1

WitC10 ==
    /\ pc = "done"
    /\ self.batch_size = 2
    /\ step = 3
    /\ Len(memory) = 1
    /\ n_updates = 1
    /\ fed.ids[1].ep # fed.ids[2].ep

====
